---- MODULE Spec2Model ----
(***************************************************************************)
(* Paper-trading credit-spread bots (theta_thursday_paper.py,              *)
(* theta_tuesday_paper.py, theta_wednesday_paper.py).                      *)
(*                                                                         *)
(* Each bot is a cron-triggered run() that loads a JSON state file, makes  *)
(* at most one entry or exit decision and writes the file back.  The       *)
(* Thursday and the Tuesday bot use the same file (thetat_state.json),     *)
(* the Wednesday bot uses thetaw_state.json.                               *)
(*                                                                         *)
(* Numbers.  Python floats are modelled in fixed point:                    *)
(*   - index levels (spot, strikes) are whole points;                      *)
(*   - money (premium, credit, pnl, capital) is counted in units of        *)
(*     1/Scale rupee, and percentages of the spread (credit_pct) in        *)
(*     units of 1/Scale percent;                                           *)
(*   - base_pct is counted in units of 0.005 percent;                      *)
(*   - hours to expiry are counted in units of 1/30000 hour, so that one   *)
(*     minute is 500 units and get_hours_left's 0.0001 h is 3 units;       *)
(*   - times of day are minutes since midnight, dates are day numbers.     *)
(* Divisions round down to the unit.  For spots that are multiples of 100  *)
(* and times a multiple of 30 minutes before the close every premium is    *)
(* exact in these units.                                                   *)
(*                                                                         *)
(* None is modelled by the empty sequence for position / candidate / file  *)
(* (a present value v is <<v>>) and by NoDate for last_run_date.           *)
(*                                                                         *)
(* The two state files never meet: no script reads both.  A behaviour      *)
(* follows one of them (name), chosen at the start, and the scripts that   *)
(* use it.                                                                 *)
(*                                                                         *)
(* Environment.  A read of the state file may fail (load_state then        *)
(* returns the default state) and a message may fail to be delivered       *)
(* (send_telegram catches it).  A write of the state file is taken to      *)
(* succeed: save_state's own error branch is not modelled.                 *)
(*                                                                         *)
(* The pure functions of the scripts are also studied on their own, over   *)
(* wider inputs than the runs produce: the specification SpecCalc draws a  *)
(* call (function and arguments) and applies the function (variable call). *)
(*                                                                         *)
(* The backtester (thetaw_backtest.py) is a program of its own: the        *)
(* specification SpecBacktest follows run_backtest() over a price history  *)
(* (variable bt).  Its money is counted in units of 1/BtScale rupee.       *)
(***************************************************************************)
EXTENDS Integers, Sequences, FiniteSets, TLC

VARIABLES day, now, name, file, last, call, bt

vars == <<day, now, name, file, last, call, bt>>

(***************************************************************************)
(* Bounds of the model.                                                    *)
(***************************************************************************)
MaxDay == 9
MaxTrades == 1

(***************************************************************************)
(* Units.                                                                  *)
(***************************************************************************)
Scale == 200 * 11
HourUnits == 60 * 500

Abs(x) == IF x < 0 THEN 0 - x ELSE x
Min(a, b) == IF a < b THEN a ELSE b
Max(a, b) == IF a > b THEN a ELSE b

Variants == {"thu", "tue", "wed"}

(***************************************************************************)
(* Configuration constants of the three scripts.                           *)
(***************************************************************************)
STATE_FILE(v) == IF v = "wed" THEN "thetaw_state.json" ELSE "thetat_state.json"
SPREAD_WIDTH(v) == IF v = "wed" THEN 100 ELSE 50
\* OTM_PCT in units of 0.01 percent (1.0 -> 100, 0.75 -> 75)
OTM_PCT(v) == IF v = "wed" THEN 75 ELSE 100
MIN_CREDIT_PCT(v) == 15
ENTRY_START(v) == IF v = "tue" THEN 11 * 60 ELSE 10 * 60
ENTRY_END(v) == 14 * 60
EXIT_TIME(v) == 15 * 60 + 25
LOTS(v) == IF v = "thu" THEN 10 ELSE IF v = "tue" THEN 2 ELSE 5
LOT_SIZE(v) == IF v = "thu" THEN 50 ELSE IF v = "tue" THEN 75 ELSE 15
\* the NIFTY scripts write the strike step as the literal 50
STRIKE_STEP(v) == IF v = "wed" THEN 100 ELSE 50
INITIAL_CAPITAL == 500000 * Scale
STOP_LOSS_MULTIPLIER == 2
\* Python weekday(): Monday = 0
\* variant: the Tuesday script still tests the Thursday weekday
RunWeekdayCopied(v) == IF v = "wed" THEN 2 ELSE 3

RunWeekday(v) == IF v = "tue" THEN 1 ELSE IF v = "wed" THEN 2 ELSE 3
\* the floor of estimate_premium: max(..., 3) for NIFTY, max(..., 5.0) for Bank Nifty
PremiumFloor(v) == IF v = "wed" THEN 5 * Scale ELSE 3 * Scale
MarketOpen == 9 * 60 + 15
MarketClose == 15 * 60 + 30
close_mins == 15 * 60 + 30

(***************************************************************************)
(* The calendar: day 1 is a Wednesday.                                     *)
(***************************************************************************)
Weekday(d) == (d + 1) % 7

NoDate == 0

(***************************************************************************)
(* estimate_premium                                                        *)
(***************************************************************************)
\* distance_pct < t/100, with distance_pct = abs(spot - strike) / spot * 100
DistanceBelow(spot, strike, t) == Abs(spot - strike) * 10000 < t * spot

\* variant: the steps for 0.6-0.8 and 0.8-1.0 percent are exchanged
BasePctNiftySwapped(spot, strike) ==
    IF DistanceBelow(spot, strike, 20) THEN 90
    ELSE IF DistanceBelow(spot, strike, 40) THEN 70
    ELSE IF DistanceBelow(spot, strike, 60) THEN 50
    ELSE IF DistanceBelow(spot, strike, 80) THEN 24
    ELSE IF DistanceBelow(spot, strike, 100) THEN 36
    ELSE IF DistanceBelow(spot, strike, 120) THEN 16
    ELSE IF DistanceBelow(spot, strike, 150) THEN 10
    ELSE IF DistanceBelow(spot, strike, 200) THEN 6
    ELSE 3

\* base_pct of the NIFTY scripts (Thursday, Tuesday), in units of 0.005 percent
BasePctNifty(spot, strike) ==
    IF DistanceBelow(spot, strike, 20) THEN 90
    ELSE IF DistanceBelow(spot, strike, 40) THEN 70
    ELSE IF DistanceBelow(spot, strike, 60) THEN 50
    ELSE IF DistanceBelow(spot, strike, 80) THEN 36
    ELSE IF DistanceBelow(spot, strike, 100) THEN 24
    ELSE IF DistanceBelow(spot, strike, 120) THEN 16
    ELSE IF DistanceBelow(spot, strike, 150) THEN 10
    ELSE IF DistanceBelow(spot, strike, 200) THEN 6
    ELSE 3

\* base_pct of the Bank Nifty script (Wednesday), in units of 0.005 percent
BasePctBankNifty(spot, strike) ==
    IF DistanceBelow(spot, strike, 20) THEN 130
    ELSE IF DistanceBelow(spot, strike, 40) THEN 100
    ELSE IF DistanceBelow(spot, strike, 60) THEN 76
    ELSE IF DistanceBelow(spot, strike, 80) THEN 54
    ELSE IF DistanceBelow(spot, strike, 100) THEN 36
    ELSE IF DistanceBelow(spot, strike, 125) THEN 24
    ELSE IF DistanceBelow(spot, strike, 150) THEN 16
    ELSE IF DistanceBelow(spot, strike, 200) THEN 10
    ELSE IF DistanceBelow(spot, strike, 250) THEN 6
    ELSE 3

BasePct(v, spot, strike) ==
    IF v = "wed" THEN BasePctBankNifty(spot, strike) ELSE BasePctNifty(spot, strike)

\* numerator of time_factor = min(hours_to_expiry / 5.5, 1.0), over 5.5 h
TimeFactor(hours) == Min(hours, 11 * (HourUnits \div 2))

\* max(spot * base_pct / 100 * time_factor, floor), in units of 1/Scale.
\* spot * bp/20000 * tf/165000 * Scale = spot * bp * tf / 1500000; with
\* tf = 500 q + r this is ((spot * bp * q) + (spot * bp * r) / 500) / 3000.
estimate_premium(v, spot, strike, hours_to_expiry) ==
    LET a == spot * BasePct(v, spot, strike)
        tf == TimeFactor(hours_to_expiry)
        q == tf \div 500
        r == tf % 500
        premium == (a * q + (a * r) \div 500) \div 3000
    IN Max(premium, PremiumFloor(v))

\* Tuesday: max((close_mins - current_mins) / 60, 0.0001)
get_hours_left(t) == Max((close_mins - t) * 500, 3)

\* Thursday, Wednesday: hours_left = (close_mins - current_mins) / 60
HoursLeftEntry(v, t) ==
    IF v = "tue" THEN get_hours_left(t) ELSE (close_mins - t) * 500

(***************************************************************************)
(* calculate_spread_pnl: P&L per unit of a put credit spread at exit.      *)
(***************************************************************************)

\* variant: the partial loss is measured from the long strike
calculate_spread_pnl_long_leg(short_strike, long_strike, credit, exit_spot) ==
    IF exit_spot >= short_strike THEN credit
    ELSE IF exit_spot <= long_strike
         THEN credit - (short_strike - long_strike) * Scale
         ELSE credit - (exit_spot - long_strike) * Scale

calculate_spread_pnl(short_strike, long_strike, credit, exit_spot) ==
    IF exit_spot >= short_strike THEN credit
    ELSE IF exit_spot <= long_strike
         THEN credit - (short_strike - long_strike) * Scale
         ELSE credit - (short_strike - exit_spot) * Scale

(***************************************************************************)
(* Strike selection.  Python's round() rounds halves to the even integer.  *)
(***************************************************************************)

\* variant: int() instead of round(): the quotient is truncated
RoundDown(n, d) == n \div d

RoundHalfEven(n, d) ==
    LET q == n \div d
        r == n % d
    IN IF 2 * r < d THEN q
       ELSE IF 2 * r > d THEN q + 1
       ELSE IF q % 2 = 0 THEN q ELSE q + 1

\* round((spot * (1 - OTM_PCT/100)) / step) * step
ShortStrike(v, spot) ==
    RoundHalfEven(spot * (10000 - OTM_PCT(v)), 10000 * STRIKE_STEP(v)) * STRIKE_STEP(v)

LongStrike(v, spot) == ShortStrike(v, spot) - SPREAD_WIDTH(v)

(***************************************************************************)
(* Persisted state.                                                        *)
(***************************************************************************)
default_state ==
    [capital |-> INITIAL_CAPITAL, position |-> <<>>, trades |-> <<>>,
     last_run_date |-> NoDate]

\* load_state: the default when the file is missing or cannot be read
load_state(f, readOk) == IF f = <<>> \/ ~readOk THEN default_state ELSE f[1]

\* save_state: the file now holds the state
save_state(st) == <<st>>

is_run_day(v, d) == Weekday(d) = RunWeekday(v)

is_market_hours(t) == MarketOpen <= t /\ t <= MarketClose

\* "if not spot": None and 0 are both no price; 0 stands for both
SpotMissing(spot) == spot = 0


\* variant: the date is refreshed but the position is kept
StaleResetKeepsPosition(st, today) ==
    IF st.last_run_date # today THEN [st EXCEPT !.last_run_date = today] ELSE st

\* run(): "Reset position if new day"
StaleReset(st, today) ==
    IF st.last_run_date # today
    THEN [st EXCEPT !.position = <<>>, !.last_run_date = today]
    ELSE st

(***************************************************************************)
(* check_entry                                                             *)
(***************************************************************************)

\* variant: only the end of the window is tested
OutsideEntryWindowEndOnly(v, t) == t > ENTRY_END(v)

OutsideEntryWindow(v, t) == t < ENTRY_START(v) \/ t > ENTRY_END(v)

NetCredit(v, spot, t) ==
    estimate_premium(v, spot, ShortStrike(v, spot), HoursLeftEntry(v, t))
    - estimate_premium(v, spot, LongStrike(v, spot), HoursLeftEntry(v, t))

\* credit_pct = (net_credit / SPREAD_WIDTH) * 100, in units of 1/Scale percent
CreditPct(v, net_credit) == (net_credit * 100) \div SPREAD_WIDTH(v)


\* variant: the credit is compared as a fraction of the spread, not in percent
CreditTooLowAsFraction(v, credit_pct) == credit_pct < MIN_CREDIT_PCT(v) * Scale * 100

CreditTooLow(v, credit_pct) == credit_pct < MIN_CREDIT_PCT(v) * Scale

Candidate(v, spot, t) ==
    LET net_credit == NetCredit(v, spot, t)
        base == [short_strike |-> ShortStrike(v, spot),
                 long_strike |-> LongStrike(v, spot),
                 credit |-> net_credit,
                 credit_pct |-> CreditPct(v, net_credit),
                 entry_spot |-> spot,
                 entry_time |-> t,
                 lots |-> LOTS(v)]
    IN IF v = "tue"
       THEN [short_strike |-> base.short_strike, long_strike |-> base.long_strike,
             credit |-> base.credit, credit_pct |-> base.credit_pct,
             entry_spot |-> base.entry_spot, entry_time |-> base.entry_time,
             lots |-> base.lots,
             stop_trigger |-> net_credit * STOP_LOSS_MULTIPLIER]
       ELSE base

check_entry(v, spot, t) ==
    IF OutsideEntryWindow(v, t) THEN <<>>
    ELSE IF CreditTooLow(v, CreditPct(v, NetCredit(v, spot, t))) THEN <<>>
    ELSE <<Candidate(v, spot, t)>>

(***************************************************************************)
(* check_exit                                                              *)
(***************************************************************************)
\* variant: the two legs of the spread are exchanged
CostToCloseLegsSwapped(v, position, spot, t) ==
    estimate_premium(v, spot, position.long_strike, get_hours_left(t))
    - estimate_premium(v, spot, position.short_strike, get_hours_left(t))

CostToClose(v, position, spot, t) ==
    estimate_premium(v, spot, position.short_strike, get_hours_left(t))
    - estimate_premium(v, spot, position.long_strike, get_hours_left(t))


\* variant: the cost to close is compared with the credit, not with twice it
StopLossHitAtCredit(v, position, spot, t) ==
    CostToClose(v, position, spot, t) >= position.credit

StopLossHit(v, position, spot, t) ==
    CostToClose(v, position, spot, t) >= position.stop_trigger


\* variant: the exit time itself is not yet an exit
EodReachedStrict(v, t) == t > EXIT_TIME(v)

EodReached(v, t) == t >= EXIT_TIME(v)

Hold == [exit |-> FALSE, reason |-> "None"]

check_exit_tuesday(position, spot, t) ==
    IF StopLossHit("tue", position, spot, t)
    THEN [exit |-> TRUE, reason |-> "STOP LOSS"]
    ELSE IF EodReached("tue", t) THEN [exit |-> TRUE, reason |-> "EOD Exit"]
    ELSE Hold

check_exit_eod(v, t) ==
    IF EodReached(v, t) THEN [exit |-> TRUE, reason |-> "EOD Exit"] ELSE Hold

check_exit(v, position, spot, t) ==
    IF v = "tue" THEN check_exit_tuesday(position, spot, t) ELSE check_exit_eod(v, t)

\* position['stop_trigger'] raises KeyError on a position without the key
ExitRaises(v, position) == v = "tue" /\ "stop_trigger" \notin DOMAIN position

(***************************************************************************)
(* run(): the exit branch                                                  *)
(***************************************************************************)
\* Thursday and Wednesday test pnl_per_lot > 0, Tuesday tests total_pnl > 0
ResultLabel(v, position, pnl_per_lot, total_pnl) ==
    IF (IF v = "tue" THEN total_pnl > 0 ELSE pnl_per_lot > 0) THEN "WIN"
    ELSE IF pnl_per_lot < 0 - position.credit THEN "MAX LOSS"
    ELSE "PARTIAL LOSS"

TotalPnl(v, position, spot) ==
    calculate_spread_pnl(position.short_strike, position.long_strike,
                         position.credit, spot) * position.lots * LOT_SIZE(v)

TradeRecord(v, position, spot, today, t, reason) ==
    LET pnl_per_lot == calculate_spread_pnl(position.short_strike,
                           position.long_strike, position.credit, spot)
        total_pnl == TotalPnl(v, position, spot)
        result == ResultLabel(v, position, pnl_per_lot, total_pnl)
    IN IF v = "tue"
       THEN [date |-> today, exit_reason |-> reason,
             entry_time |-> position.entry_time, exit_time |-> t,
             entry_spot |-> position.entry_spot, exit_spot |-> spot,
             short_strike |-> position.short_strike,
             long_strike |-> position.long_strike,
             credit |-> position.credit, pnl |-> total_pnl, result |-> result]
       ELSE [date |-> today,
             entry_time |-> position.entry_time, exit_time |-> t,
             entry_spot |-> position.entry_spot, exit_spot |-> spot,
             short_strike |-> position.short_strike,
             long_strike |-> position.long_strike,
             credit |-> position.credit, pnl |-> total_pnl, result |-> result]

\* variant: the per-lot P&L is added to the capital, the total is recorded
ApplyExitCapitalPerLot(v, st, spot, today, t, reason) ==
    LET position == st.position[1]
    IN [st EXCEPT !.capital = st.capital
                      + calculate_spread_pnl(position.short_strike,
                            position.long_strike, position.credit, spot),
                  !.trades = Append(st.trades,
                                    TradeRecord(v, position, spot, today, t, reason)),
                  !.position = <<>>]

\* variant: after the exit the entry rule is evaluated in the same run
ApplyExitAndReenter(v, st, spot, today, t, reason) ==
    LET position == st.position[1]
    IN [st EXCEPT !.capital = st.capital + TotalPnl(v, position, spot),
                  !.trades = Append(st.trades,
                                    TradeRecord(v, position, spot, today, t, reason)),
                  !.position = check_entry(v, spot, t)]

\* capital += total_pnl; trades.append(trade); position = None
ApplyExit(v, st, spot, today, t, reason) ==
    LET position == st.position[1]
    IN [st EXCEPT !.capital = st.capital + TotalPnl(v, position, spot),
                  !.trades = Append(st.trades,
                                    TradeRecord(v, position, spot, today, t, reason)),
                  !.position = <<>>]

\* variant: the unrealized P&L is booked into the capital
MonitorBooksUnrealized(v, st, spot) ==
    [st EXCEPT !.capital = st.capital + TotalPnl(v, st.position[1], spot)]

\* "Monitor position": the unrealized P&L is computed and logged, the state
\* is not touched
Monitor(v, st, spot) == st

(***************************************************************************)
(* run(): notification and the order of save_state and send_telegram       *)
(***************************************************************************)
\* send_telegram wraps the delivery in try/except: a failure is logged
send_telegram(tgOk) == IF tgOk THEN "sent" ELSE "caught"


\* variant: nothing is saved before the message is sent
SaveOnTransitionLate(f, st) == f

\* save_state(state) right after the transition, before the message is built
SaveOnTransition(f, st) == save_state(st)

\* the file when run() returns after a transition: the final save_state(state)
\* is reached unless the notification raised
FileAfterNotify(fAtNotify, st, tg) ==
    IF tg = "raised" THEN fAtNotify ELSE save_state(st)


\* variant: the state is saved before run() returns on a missing price
FileOnNoSpotSaved(f, st) == save_state(st)

\* the file when run() returns on a missing spot price: run() returns
\* before any save_state
FileOnNoSpot(f, st) == f

(***************************************************************************)
(* run(): one invocation, from the file f found to the file left behind.   *)
(* info records what the invocation did:                                   *)
(*   gate      where run() returned: "not_run_day", "outside_hours",       *)
(*             "no_spot", "done" (the final save_state), "error"           *)
(*   decision  "none", "entry", "no_entry", "exit", "hold"                 *)
(*   stale     the new-day reset was applied                               *)
(*   discarded the reset dropped an open position                          *)
(*   tg        "none" (no message), "sent", "caught"                       *)
(*   savedAtNotify  the file held the new state when the message was sent  *)
(***************************************************************************)
Idle ==
    [v |-> "none", spot |-> 0, readOk |-> TRUE, tgOk |-> TRUE,
     gate |-> "idle", decision |-> "none", reason |-> "None",
     stale |-> FALSE, discarded |-> FALSE, tg |-> "none", savedAtNotify |-> FALSE]

RunInfo(v, spot, readOk, tgOk) ==
    [Idle EXCEPT !.v = v, !.spot = spot, !.readOk = readOk, !.tgOk = tgOk]

RunTransition(f, st, info, decision, reason, tgOk) ==
    LET fAtNotify == SaveOnTransition(f, st)
        tg == send_telegram(tgOk)
    IN [file |-> FileAfterNotify(fAtNotify, st, tg),
        info |-> [info EXCEPT !.gate = IF tg = "raised" THEN "error" ELSE "done",
                              !.decision = decision, !.reason = reason,
                              !.tg = tg,
                              !.savedAtNotify = (fAtNotify = save_state(st))]]

RunOutcome(v, f, today, t, spot, readOk, tgOk) ==
    LET info0 == RunInfo(v, spot, readOk, tgOk)
    IN
    IF ~is_run_day(v, today)
    THEN [file |-> f, info |-> [info0 EXCEPT !.gate = "not_run_day"]]
    ELSE IF ~is_market_hours(t)
    THEN [file |-> f, info |-> [info0 EXCEPT !.gate = "outside_hours"]]
    ELSE
    LET loaded == load_state(f, readOk)
        st == StaleReset(loaded, today)
        info == [info0 EXCEPT !.stale = (loaded.last_run_date # today),
                              !.discarded = (loaded.last_run_date # today
                                             /\ loaded.position # <<>>)]
    IN
    IF SpotMissing(spot)
    THEN [file |-> FileOnNoSpot(f, st), info |-> [info EXCEPT !.gate = "no_spot"]]
    ELSE IF st.position = <<>>
    THEN LET entry == check_entry(v, spot, t)
         IN IF entry # <<>>
            THEN RunTransition(f, [st EXCEPT !.position = entry], info,
                               "entry", "None", tgOk)
            ELSE [file |-> save_state(st),
                  info |-> [info EXCEPT !.gate = "done", !.decision = "no_entry"]]
    ELSE IF ExitRaises(v, st.position[1])
    THEN [file |-> f, info |-> [info EXCEPT !.gate = "error"]]
    ELSE LET x == check_exit(v, st.position[1], spot, t)
         IN IF x.exit
            THEN RunTransition(f, ApplyExit(v, st, spot, today, t, x.reason),
                               info, "exit", x.reason, tgOk)
            ELSE [file |-> save_state(Monitor(v, st, spot)),
                  info |-> [info EXCEPT !.gate = "done", !.decision = "hold"]]

(***************************************************************************)
(* The environment: the clock, the price feed, the file system, Telegram.  *)
(***************************************************************************)
Times == {9 * 60 + 30, 10 * 60, 11 * 60, 14 * 60,
          15 * 60 + 25, 15 * 60 + 30, 16 * 60}

\* The prices the feed can return at time t; 0 means that get_spot_price
\* returned no price.  The index opens high, may dip before noon and may fall
\* through the strikes of the morning's spread in the afternoon.
SpotsNifty(t) ==
    IF t <= 10 * 60 THEN {0, 26000}
    ELSE IF t <= 11 * 60 THEN {0, 25800, 26000}
    ELSE IF t <= 14 * 60 THEN {0, 25730, 26000}
    ELSE IF t <= 15 * 60 + 25 THEN {0, 25700, 25730, 26000}
    ELSE {0, 25700}

SpotsBankNifty(t) ==
    IF t <= 11 * 60 THEN {0, 50200}
    ELSE IF t <= 14 * 60 THEN {0, 49750, 50200}
    ELSE IF t <= 15 * 60 + 25 THEN {0, 49700, 49750, 50200}
    ELSE {0, 49700}

Spots(v, t) == IF v = "wed" THEN SpotsBankNifty(t) ELSE SpotsNifty(t)

FileNames == {STATE_FILE(v) : v \in Variants}

\* the backtester is not running
NoBacktest == [pc |-> "none"]

\* no function call is under study during the runs
NoCall == [fn |-> "none", arg |-> <<>>, done |-> TRUE, result |-> <<>>]

\* days on which one of the scripts trades
TradingDay(d) == \E v \in Variants : is_run_day(v, d)

Init ==
    /\ day = 1
    /\ now = 9 * 60 + 30
    /\ name \in FileNames
    /\ file = <<>>
    /\ last = Idle
    /\ call = NoCall
    /\ bt = NoBacktest

\* time passes within the day
Tick ==
    /\ \E t \in Times : t > now /\ now' = t
    /\ last' = Idle
    /\ UNCHANGED <<day, name, file, call, bt>>

\* the next trigger is on a later day
NextDay ==
    /\ \E d \in 1..7 : day + d <= MaxDay /\ TradingDay(day + d) /\ day' = day + d
    /\ \E t \in Times : now' = t
    /\ last' = Idle
    /\ UNCHANGED <<name, file, call, bt>>

Gated(info) == info.gate \in {"not_run_day", "outside_hours"}

\* One invocation of a script.  The inputs that the invocation does not
\* read are fixed: no price is fetched and no file is read behind a closed
\* gate, and no message is sent without a transition.
Run(v) ==
    /\ STATE_FILE(v) = name
    /\ \E spot \in Spots(v, now), readOk \in BOOLEAN, tgOk \in BOOLEAN :
        \E r \in {RunOutcome(v, file, day, now, spot, readOk, tgOk)} :
           /\ readOk \/ (file # <<>> /\ ~Gated(r.info))
           /\ Gated(r.info) => spot = 0
           /\ tgOk \/ r.info.tg # "none"
           /\ r.file # <<>> => Len(r.file[1].trades) <= MaxTrades
           /\ file' = r.file
           /\ last' = r.info
           /\ UNCHANGED <<day, now, name, call, bt>>

RunThursday == Run("thu")
RunTuesday == Run("tue")
RunWednesday == Run("wed")

Next == Tick \/ NextDay \/ RunThursday \/ RunTuesday \/ RunWednesday

Spec == Init /\ [][Next]_vars

(***************************************************************************)
(* The backtester's copy of the settlement function (thetaw_backtest.py).  *)
(***************************************************************************)
spread_pnl(short_k, long_k, credit, exit_spot) ==
    IF exit_spot >= short_k THEN credit
    ELSE IF exit_spot <= long_k THEN credit - (short_k - long_k) * Scale
    ELSE credit - (short_k - exit_spot) * Scale

\* base_pct of the backtester's estimate_premium_bnf, in units of 0.005 percent
BasePctBacktest(spot, strike) ==
    IF DistanceBelow(spot, strike, 20) THEN 130
    ELSE IF DistanceBelow(spot, strike, 40) THEN 100
    ELSE IF DistanceBelow(spot, strike, 60) THEN 76
    ELSE IF DistanceBelow(spot, strike, 80) THEN 54
    ELSE IF DistanceBelow(spot, strike, 100) THEN 36
    ELSE IF DistanceBelow(spot, strike, 125) THEN 24
    ELSE IF DistanceBelow(spot, strike, 150) THEN 16
    ELSE IF DistanceBelow(spot, strike, 200) THEN 10
    ELSE IF DistanceBelow(spot, strike, 250) THEN 6
    ELSE 3

\* max(spot * base_pct / 100 * time_factor, 5.0), in units of 1/Scale
estimate_premium_bnf(spot, strike, hours_to_expiry) ==
    LET a == spot * BasePctBacktest(spot, strike)
        tf == TimeFactor(hours_to_expiry)
        q == tf \div 500
        r == tf % 500
        premium == (a * q + (a * r) \div 500) \div 3000
    IN Max(premium, 5 * Scale)

(***************************************************************************)
(* SpecCalc: the pure functions applied to drawn arguments.                *)
(***************************************************************************)
\* spreads (short > long), credits and exit spots for the settlement functions
PnlShorts == {25750, 49800}
PnlWidths == {50, 100}
PnlCredits == {0, 16500, 20900, 22880, 110000, 121000}
PnlOffsets == {-120, -100, -70, -50, -30, -20, -1, 0, 1, 20}

PnlArgs ==
    {[short |-> s, long |-> s - w, credit |-> c, exit_spot |-> s + o] :
        s \in PnlShorts, w \in PnlWidths, c \in PnlCredits, o \in PnlOffsets}

\* Tuesday positions as check_entry creates them, and the spot and time at
\* which check_exit looks at them
ExitEntrySpots == {25700, 25800, 26000, 26100}
ExitEntryTimes == {11 * 60, 11 * 60 + 30}
ExitSpots == {25400 + 50 * k : k \in 0..14} \cup {25730}
ExitTimes == {11 * 60, 11 * 60 + 30, 12 * 60, 13 * 60, 14 * 60, 15 * 60,
              15 * 60 + 24, 15 * 60 + 25, 15 * 60 + 30}

ExitArgs ==
    {[position |-> c[1], spot |-> x, t |-> t] :
        c \in {check_entry("tue", es, et) :
                  es \in ExitEntrySpots, et \in ExitEntryTimes} \ {<<>>},
        x \in ExitSpots, t \in ExitTimes}

\* spots for the strike selection: a range around the current index levels
\* and spots whose target lies exactly between two strikes (22500, 27500)
StrikeSpotsNifty == {25000 + 30 * k : k \in 0..40} \cup {22500, 27500}
StrikeSpotsBankNifty == {49000 + 70 * k : k \in 0..30}

StrikeArgs ==
    {[v |-> v, spot |-> x] : v \in {"thu", "tue"}, x \in StrikeSpotsNifty}
    \cup {[v |-> "wed", spot |-> x] : x \in StrikeSpotsBankNifty}

\* spots that are multiples of 100 and times a multiple of 30 minutes before
\* the close
EntrySpotsNifty == {25000 + 100 * k : k \in 0..12}
EntrySpotsBankNifty == {49000 + 100 * k : k \in 0..15}
EntryTimes == {9 * 60 + 30, 10 * 60, 10 * 60 + 30, 11 * 60, 11 * 60 + 30,
               12 * 60, 14 * 60, 14 * 60 + 30}

EntryArgs ==
    {[v |-> v, spot |-> x, t |-> t] :
        v \in {"thu", "tue"}, x \in EntrySpotsNifty, t \in EntryTimes}
    \cup {[v |-> "wed", spot |-> x, t |-> t] :
        x \in EntrySpotsBankNifty, t \in EntryTimes}

\* premiums of two strikes at one spot and time, the second strike at least
\* as far from the spot as the first.  The strikes lie 0.1 percent of the spot
\* apart, from 0.2 percent above the spot to 2.8 percent below it, so that
\* they fall on both sides of every breakpoint of the tables and on the
\* breakpoints themselves.  "bt" is the backtester's estimate_premium_bnf.
PremiumSpot(v) == IF v \in {"wed", "bt"} THEN 48000 ELSE 26000
PremiumStrikes(v) == {PremiumSpot(v) - k * (PremiumSpot(v) \div 1000) : k \in -2..28}
PremiumHours == {3, 30 * 500, 120 * 500, 330 * 500, 360 * 500}

PremiumArgs ==
    UNION {{[v |-> v, spot |-> PremiumSpot(v), near |-> p[1], far |-> p[2], hours |-> h] :
               p \in {q \in PremiumStrikes(v) \X PremiumStrikes(v) :
                         Abs(PremiumSpot(v) - q[2]) >= Abs(PremiumSpot(v) - q[1])},
               h \in PremiumHours} : v \in {"thu", "tue", "wed", "bt"}}

\* a spot and strikes every 0.05 percent of the spot, from the spot itself to
\* 3 percent below it, at which the three tables are read
BasePctSpot == 48000
BasePctArgs ==
    {[spot |-> BasePctSpot, strike |-> BasePctSpot - k * (BasePctSpot \div 2000)] :
        k \in 0..60}

NewCall(fn, arg) == [fn |-> fn, arg |-> arg, done |-> FALSE, result |-> <<>>]

InitCalc ==
    /\ day = 1
    /\ now = 9 * 60 + 30
    /\ name = "none"
    /\ file = <<>>
    /\ last = Idle
    /\ bt = NoBacktest
    /\ \/ \E a \in PnlArgs : call = NewCall("calculate_spread_pnl", a)
       \/ \E a \in PnlArgs : call = NewCall("spread_pnl", a)
       \/ \E a \in ExitArgs : call = NewCall("check_exit", a)
       \/ \E a \in StrikeArgs : call = NewCall("strikes", a)
       \/ \E a \in EntryArgs : call = NewCall("check_entry", a)
       \/ \E a \in EntryArgs : call = NewCall("run", a)
       \/ \E a \in PremiumArgs : call = NewCall("estimate_premium", a)
       \/ \E a \in BasePctArgs : call = NewCall("base_pct", a)

Return(value) ==
    /\ call' = [call EXCEPT !.done = TRUE, !.result = <<value>>]
    /\ UNCHANGED <<day, now, name, file, last, bt>>

CallSpreadPnl ==
    /\ call.fn = "calculate_spread_pnl" /\ ~call.done
    /\ Return(calculate_spread_pnl(call.arg.short, call.arg.long,
                                   call.arg.credit, call.arg.exit_spot))

CallBacktestPnl ==
    /\ call.fn = "spread_pnl" /\ ~call.done
    /\ Return(spread_pnl(call.arg.short, call.arg.long,
                         call.arg.credit, call.arg.exit_spot))

CallCheckExit ==
    /\ call.fn = "check_exit" /\ ~call.done
    /\ Return(check_exit("tue", call.arg.position, call.arg.spot, call.arg.t))

CallStrikes ==
    /\ call.fn = "strikes" /\ ~call.done
    /\ Return([short_strike |-> ShortStrike(call.arg.v, call.arg.spot),
               long_strike |-> LongStrike(call.arg.v, call.arg.spot)])

CallCheckEntry ==
    /\ call.fn = "check_entry" /\ ~call.done
    /\ Return(check_entry(call.arg.v, call.arg.spot, call.arg.t))

\* the first run of a variant on its own weekday: no state file yet, the
\* message is delivered; the result is the file the run leaves behind
RunDay(v) == CHOOSE d \in 1..7 : Weekday(d) = RunWeekday(v)

CallRun ==
    /\ call.fn = "run" /\ ~call.done
    /\ Return(RunOutcome(call.arg.v, <<>>, RunDay(call.arg.v), call.arg.t,
                         call.arg.spot, TRUE, TRUE).file)

PremiumOf(v, spot, strike, hours) ==
    IF v = "bt" THEN estimate_premium_bnf(spot, strike, hours)
    ELSE estimate_premium(v, spot, strike, hours)

CallPremium ==
    /\ call.fn = "estimate_premium" /\ ~call.done
    /\ Return([near |-> PremiumOf(call.arg.v, call.arg.spot, call.arg.near,
                                  call.arg.hours),
               far |-> PremiumOf(call.arg.v, call.arg.spot, call.arg.far,
                                 call.arg.hours)])

\* the base_pct that each table gives for one spot and strike
CallBasePct ==
    /\ call.fn = "base_pct" /\ ~call.done
    /\ Return([nifty |-> BasePctNifty(call.arg.spot, call.arg.strike),
               bank_nifty |-> BasePctBankNifty(call.arg.spot, call.arg.strike),
               backtest |-> BasePctBacktest(call.arg.spot, call.arg.strike)])

NextCalc ==
    \/ CallSpreadPnl
    \/ CallBacktestPnl
    \/ CallCheckExit
    \/ CallStrikes
    \/ CallCheckEntry
    \/ CallRun
    \/ CallPremium
    \/ CallBasePct

SpecCalc == InitCalc /\ [][NextCalc]_vars

(***************************************************************************)
(* thetaw_backtest.py: run_backtest().                                     *)
(*   bt.pc          "sessions" (inside the loop over the Wednesdays of one *)
(*                  combination), "combo_done" (after that loop), "rank"   *)
(*                  (after the grid loop), "done"                          *)
(*   bt.wednesdays  the sessions, [entry_spot, exit_spot]                  *)
(*   bt.combo       index of the combination in product(...) order         *)
(*   bt.i           index of the next session                              *)
(*   bt.trades, capital, peak_capital, max_drawdown, skipped: the locals   *)
(*   bt.results     the result rows                                        *)
(*   bt.by_pnl, by_wr, by_pf: the rows printed by the three rankings       *)
(***************************************************************************)
BtScale == 20

OTM_PCT_RANGE == <<50, 75, 100, 125, 150, 200>>
SPREAD_WIDTH_RANGE == <<100, 150, 200>>
MIN_CREDIT_RANGE == <<10, 15, 20>>
LOTS_RANGE == <<5, 10>>
BT_LOT_SIZE == 15
BT_INITIAL_CAPITAL == 500000 * BtScale
BT_STRIKE_STEP == 100
\* 4.5 hours, in units of 1/30000 hour
ENTRY_HOURS_TO_EXPIRY == 9 * (HourUnits \div 2)

total_combos ==
    Len(OTM_PCT_RANGE) * Len(SPREAD_WIDTH_RANGE) * Len(MIN_CREDIT_RANGE) * Len(LOTS_RANGE)

\* itertools.product: the last range varies fastest
Combo(c) ==
    [otm_pct |-> OTM_PCT_RANGE[((c - 1) \div 18) + 1],
     spread_width |-> SPREAD_WIDTH_RANGE[(((c - 1) \div 6) % 3) + 1],
     min_credit_pct |-> MIN_CREDIT_RANGE[(((c - 1) \div 2) % 3) + 1],
     lots |-> LOTS_RANGE[((c - 1) % 2) + 1]]

\* a premium in units of 1/BtScale rupee
BtMoney(x) == x \div (Scale \div BtScale)

BtShortStrike(entry_spot, otm_pct) ==
    RoundHalfEven(entry_spot * (10000 - otm_pct), 10000 * BT_STRIKE_STEP) * BT_STRIKE_STEP

BtNetCredit(entry_spot, short_k, long_k) ==
    BtMoney(estimate_premium_bnf(entry_spot, short_k, ENTRY_HOURS_TO_EXPIRY))
    - BtMoney(estimate_premium_bnf(entry_spot, long_k, ENTRY_HOURS_TO_EXPIRY))

\* credit_pct = (net_credit / spread_width) * 100, in units of 1/BtScale percent
BtCreditPct(net_credit, spread_width) == (net_credit * 100) \div spread_width

\* spread_pnl in units of 1/BtScale rupee
BtSpreadPnl(short_k, long_k, credit, exit_spot) ==
    IF exit_spot >= short_k THEN credit
    ELSE IF exit_spot <= long_k THEN credit - (short_k - long_k) * BtScale
    ELSE credit - (short_k - exit_spot) * BtScale

\* the locals of one session of one combination
BtSession(c, w) ==
    LET k == Combo(c)
        short_k == BtShortStrike(w.entry_spot, k.otm_pct)
        long_k == short_k - k.spread_width
        net_credit == BtNetCredit(w.entry_spot, short_k, long_k)
        credit_pct == BtCreditPct(net_credit, k.spread_width)
        pnl_unit == BtSpreadPnl(short_k, long_k, net_credit, w.exit_spot)
    IN [short_k |-> short_k, long_k |-> long_k, net_credit |-> net_credit,
        credit_pct |-> credit_pct,
        skip |-> credit_pct < k.min_credit_pct * BtScale,
        total_pnl |-> pnl_unit * k.lots * BT_LOT_SIZE]

\* the locals at the start of a combination
BtStartCombo(b, c) ==
    [b EXCEPT !.pc = "sessions", !.combo = c, !.i = 1, !.trades = <<>>,
              !.capital = BT_INITIAL_CAPITAL, !.peak_capital = BT_INITIAL_CAPITAL,
              !.max_drawdown = 0, !.skipped = 0]

\* where the loop over the sessions goes after session i
BtAdvance(b) ==
    IF b.i = Len(b.wednesdays)
    THEN [b EXCEPT !.pc = "combo_done", !.i = b.i + 1]
    ELSE [b EXCEPT !.i = b.i + 1]

\* variant: the skipped session is not counted
SkipSessionUncounted(b) == b

\* skipped += 1
SkipSession(b) == [b EXCEPT !.skipped = b.skipped + 1]

\* a session whose credit is below min_credit_pct: skipped += 1; continue
BtSkip ==
    /\ bt.pc = "sessions"
    /\ bt.i <= Len(bt.wednesdays)
    /\ BtSession(bt.combo, bt.wednesdays[bt.i]).skip
    /\ bt' = BtAdvance(SkipSession(bt))
    /\ UNCHANGED <<day, now, name, file, last, call>>

\* if capital > peak_capital: peak_capital = capital
PeakAfter(peak_capital, capital) == IF capital > peak_capital THEN capital ELSE peak_capital

\* variant: the drawdown of the last trade replaces the running maximum
DrawdownAfterLast(max_drawdown, peak_capital, capital) == peak_capital - capital

\* dd = peak_capital - capital; if dd > max_drawdown: max_drawdown = dd
DrawdownAfter(max_drawdown, peak_capital, capital) ==
    IF peak_capital - capital > max_drawdown THEN peak_capital - capital ELSE max_drawdown

\* a session that is traded
BtTrade ==
    /\ bt.pc = "sessions"
    /\ bt.i <= Len(bt.wednesdays)
    /\ LET x == BtSession(bt.combo, bt.wednesdays[bt.i])
           capital == bt.capital + x.total_pnl
           peak == PeakAfter(bt.peak_capital, capital)
       IN /\ ~x.skip
          /\ bt' = BtAdvance([bt EXCEPT
                       !.capital = capital,
                       !.peak_capital = peak,
                       !.max_drawdown = DrawdownAfter(bt.max_drawdown, peak, capital),
                       !.trades = Append(bt.trades,
                                         [win |-> x.total_pnl > 0, pnl |-> x.total_pnl,
                                          credit_pct |-> x.credit_pct])])
    /\ UNCHANGED <<day, now, name, file, last, call>>

RECURSIVE SumField(_, _)
SumField(seq, field) ==
    IF seq = <<>> THEN 0
    ELSE SumField(SubSeq(seq, 1, Len(seq) - 1), field) + seq[Len(seq)][field]

Wins(trades) == Cardinality({j \in 1..Len(trades) : trades[j].win})

\* pf = total_pnl / max_drawdown if max_drawdown > 0 else 99.0, in hundredths
\* (rounded down)
ProfitFactor(total_pnl, max_drawdown) ==
    IF max_drawdown > 0 THEN (total_pnl * 100) \div max_drawdown ELSE 9900

\* the result row of a combination; win_rate in units of 1/840 percent
BtRow(b) ==
    LET k == Combo(b.combo)
        n == Len(b.trades)
        total_pnl == SumField(b.trades, "pnl")
    IN [otm_pct |-> k.otm_pct, spread_width |-> k.spread_width,
        min_credit_pct |-> k.min_credit_pct, lots |-> k.lots,
        trades |-> n, skipped |-> b.skipped,
        win_rate |-> (Wins(b.trades) * 100 * 840) \div n,
        avg_credit_pct |-> SumField(b.trades, "credit_pct") \div n,
        avg_pnl |-> total_pnl \div n,
        total_pnl |-> total_pnl,
        max_drawdown |-> b.max_drawdown,
        profit_factor |-> ProfitFactor(total_pnl, b.max_drawdown)]

\* the grid loop goes on with the next combination, or ends
BtNextCombo(b) ==
    IF b.combo = total_combos THEN [b EXCEPT !.pc = "rank"]
    ELSE BtStartCombo(b, b.combo + 1)

\* "if len(trades) < 5: continue"
TooFewTrades(trades) == Len(trades) < 5

BtDropCombo ==
    /\ bt.pc = "combo_done"
    /\ TooFewTrades(bt.trades)
    /\ bt' = BtNextCombo(bt)
    /\ UNCHANGED <<day, now, name, file, last, call>>

BtAppendRow ==
    /\ bt.pc = "combo_done"
    /\ ~TooFewTrades(bt.trades)
    /\ bt' = BtNextCombo([bt EXCEPT !.results = Append(bt.results, BtRow(bt))])
    /\ UNCHANGED <<day, now, name, file, last, call>>

\* sorted(rows, key=lambda x: x[key], reverse=True): descending and stable.
\* The place of rows[i] in the sorted list: after every row of larger key and
\* after the rows of equal key that stand before it
PlaceDesc(rows, key, i) ==
    1 + Cardinality({j \in 1..Len(rows) :
                        \/ rows[j][key] > rows[i][key]
                        \/ rows[j][key] = rows[i][key] /\ j < i})

SortedDesc(rows, key) ==
    [p \in 1..Len(rows) |->
        rows[CHOOSE i \in 1..Len(rows) : PlaceDesc(rows, key, i) = p]]

\* rows[:n]
Top(rows, n) == SubSeq(rows, 1, Min(n, Len(rows)))

\* variant: the win-rate ranking uses the minimum of the result rows (5)
QualifiedWinRateFive(r) == r.trades >= 5

\* r['trades'] >= 10
QualifiedWinRate(r) == r.trades >= 10

\* r['profit_factor'] <= 50, decided on the exact quotient
PfAtMost50(r) == r.max_drawdown > 0 /\ r.total_pnl <= 50 * r.max_drawdown

\* r['trades'] >= 10 and r['profit_factor'] <= 50
QualifiedProfitFactor(r) == r.trades >= 10 /\ PfAtMost50(r)

RankByPnl(results) == Top(SortedDesc(results, "total_pnl"), 20)

RankByWinRate(results) ==
    Top(SortedDesc(SelectSeq(results, QualifiedWinRate), "win_rate"), 15)

RankByProfitFactor(results) ==
    Top(SortedDesc(SelectSeq(results, QualifiedProfitFactor), "profit_factor"), 15)

\* "if not results: print('No results generated'); return"
BtNoResults ==
    /\ bt.pc = "rank"
    /\ bt.results = <<>>
    /\ bt' = [bt EXCEPT !.pc = "done"]
    /\ UNCHANGED <<day, now, name, file, last, call>>

BtRank ==
    /\ bt.pc = "rank"
    /\ bt.results # <<>>
    /\ bt' = [bt EXCEPT !.pc = "done",
                        !.by_pnl = RankByPnl(bt.results),
                        !.by_wr = RankByWinRate(bt.results),
                        !.by_pf = RankByProfitFactor(bt.results)]
    /\ UNCHANGED <<day, now, name, file, last, call>>

\* Bank Nifty Wednesdays, [entry_spot (open), exit_spot (close)]: quiet days,
\* days that close a little lower and two sharp falls
Tape ==
    << [entry_spot |-> 50000, exit_spot |-> 50300],
       [entry_spot |-> 50200, exit_spot |-> 49500],
       [entry_spot |-> 49600, exit_spot |-> 49900],
       [entry_spot |-> 50400, exit_spot |-> 50100],
       [entry_spot |-> 51000, exit_spot |-> 50400],
       [entry_spot |-> 50800, exit_spot |-> 51200],
       [entry_spot |-> 51500, exit_spot |-> 51400],
       [entry_spot |-> 51300, exit_spot |-> 50000],
       [entry_spot |-> 50100, exit_spot |-> 50600],
       [entry_spot |-> 50500, exit_spot |-> 50450],
       [entry_spot |-> 50700, exit_spot |-> 50650],
       [entry_spot |-> 50900, exit_spot |-> 51100] >>

\* a quiet stretch: every close is above the short strikes, except that the
\* last close is just below the nearest short strike less its credit
CalmTape ==
    << [entry_spot |-> 50000, exit_spot |-> 50100],
       [entry_spot |-> 50100, exit_spot |-> 50050],
       [entry_spot |-> 50200, exit_spot |-> 50300],
       [entry_spot |-> 50300, exit_spot |-> 50250],
       [entry_spot |-> 50400, exit_spot |-> 50500],
       [entry_spot |-> 50500, exit_spot |-> 50450],
       [entry_spot |-> 50600, exit_spot |-> 50700],
       [entry_spot |-> 50700, exit_spot |-> 50650],
       [entry_spot |-> 50800, exit_spot |-> 50900],
       [entry_spot |-> 50900, exit_spot |-> 50850],
       [entry_spot |-> 51000, exit_spot |-> 50653] >>

\* the histories the download can return: stretches of the tapes
Histories ==
    {SubSeq(Tape, a, b) : a \in {1, 2, 3}, b \in {4, 8, 10, 11, 12}}
    \cup {SubSeq(CalmTape, 1, b) : b \in {10, 11}}

InitBacktest ==
    /\ day = 1
    /\ now = 9 * 60 + 30
    /\ name = "none"
    /\ file = <<>>
    /\ last = Idle
    /\ call = NoCall
    /\ \E h \in Histories :
          bt = BtStartCombo([pc |-> "sessions", wednesdays |-> h, combo |-> 1,
                             i |-> 1, trades |-> <<>>, capital |-> 0,
                             peak_capital |-> 0, max_drawdown |-> 0, skipped |-> 0,
                             results |-> <<>>, by_pnl |-> <<>>, by_wr |-> <<>>,
                             by_pf |-> <<>>], 1)

NextBacktest ==
    BtSkip \/ BtTrade \/ BtDropCombo \/ BtAppendRow \/ BtNoResults \/ BtRank

SpecBacktest == InitBacktest /\ [][NextBacktest]_vars

(***************************************************************************)
(* Properties.                                                             *)
(***************************************************************************)
\* the state that the run recorded in info loaded from the file it found
Loaded(info) == load_state(file, info.readOk)

\* the run recorded in info passed the weekday and the market-hours gate
PassedGates(info) == info.gate \in {"no_spot", "done", "error"}

\* settlement of a put credit spread (section 4.4 of the specification)
settle(short, long, credit, exit_spot) ==
    credit - Scale * Min(Max(short - exit_spot, 0), short - long)

IsPrefix(s, t) == Len(s) <= Len(t) /\ SubSeq(t, 1, Len(s)) = s

\* C1: a run on day D that passes both gates and loads a last_run_date other
\* than D evaluates no exit; it treats the position as none whatever it
\* held, writes no trade record and leaves capital and trades as loaded; the
\* position it saves is none or the candidate entered in this very run.
C1_StaleReset ==
    [][(PassedGates(last') /\ Loaded(last').last_run_date # day) =>
         /\ last'.decision \in {"none", "entry", "no_entry"}
         /\ last'.gate = "done" =>
              /\ file' # <<>>
              /\ file'[1].trades = Loaded(last').trades
              /\ file'[1].capital = Loaded(last').capital
              /\ file'[1].last_run_date = day
              /\ last'.decision = "no_entry" => file'[1].position = <<>>
              /\ last'.decision = "entry" =>
                   /\ file'[1].position # <<>>
                   /\ file'[1].position[1].entry_spot = last'.spot
                   /\ file'[1].position[1].entry_time = now]_vars

\* C1 witness: a completed run has discarded an open position of another day
C1_Witness ==
    /\ last.gate = "done"
    /\ last.discarded
    /\ file[1].last_run_date = day

\* C2: a run with a valid spot that loads a same-day open position at or
\* after 15:25 appends exactly one trade record, adds
\* settle(...) * lots * LOT_SIZE to capital and saves position none; no
\* completed run at or after 15:25 leaves an open position in the file.
C2_EodClose ==
    [][(PassedGates(last') /\ last'.gate # "no_spot" /\ now >= 15 * 60 + 25) =>
         /\ file' # <<>>
         /\ file'[1].position = <<>>
         /\ (Loaded(last').last_run_date = day /\ Loaded(last').position # <<>>) =>
              LET old == Loaded(last')
                  p == old.position[1]
              IN /\ last'.decision = "exit"
                 /\ Len(file'[1].trades) = Len(old.trades) + 1
                 /\ IsPrefix(old.trades, file'[1].trades)
                 /\ file'[1].capital = old.capital
                      + settle(p.short_strike, p.long_strike, p.credit, last'.spot)
                        * p.lots * LOT_SIZE(last'.v)]_vars

\* C2 witness: an end-of-day exit at 15:25 sharp has been recorded
C2_Witness ==
    /\ last.decision = "exit"
    /\ last.reason = "EOD Exit"
    /\ now = 15 * 60 + 25
    /\ Len(file[1].trades) = 1
    /\ file[1].position = <<>>

\* C4: both settlement functions return credit at or above the short
\* strike, credit - (short - long) at or below the long strike and
\* credit - (short - exit_spot) in between; the pieces agree at both strikes;
\* short=25750, long=25700, credit=9.5, exit_spot=25730 gives -10.5.
C4_Settlement ==
    (call.fn \in {"calculate_spread_pnl", "spread_pnl"} /\ call.done) =>
        LET a == call.arg
            r == call.result[1]
        IN /\ a.exit_spot >= a.short => r = a.credit
           /\ a.exit_spot <= a.long => r = a.credit - (a.short - a.long) * Scale
           /\ (a.long <= a.exit_spot /\ a.exit_spot <= a.short) =>
                 r = a.credit - (a.short - a.exit_spot) * Scale
           /\ r = settle(a.short, a.long, a.credit, a.exit_spot)
           /\ (a.short = 25750 /\ a.long = 25700 /\ 10 * a.credit = 95 * Scale
               /\ a.exit_spot = 25730) => 10 * r = (0 - 105) * Scale

\* C4 witness: the bots' function has settled the example spread
C4_Witness ==
    /\ call.fn = "calculate_spread_pnl"
    /\ call.done
    /\ call.arg = [short |-> 25750, long |-> 25700, credit |-> 20900,
                   exit_spot |-> 25730]
    /\ call.result = <<0 - 23100>>

C5_CreditFilter ==
    [][/\ (file' # <<>> /\ file'[1].position # <<>>) =>
            /\ file'[1].position[1].credit_pct >= 15 * Scale
            /\ file'[1].position[1].credit > 0
            /\ file'[1].position[1].credit_pct * SPREAD_WIDTH(IF name = "thetaw_state.json" THEN "wed" ELSE "thu")
                 = file'[1].position[1].credit * 100
       /\ last'.decision = "no_entry" => (file' # <<>> /\ file'[1].position = <<>>)
       /\ (last'.decision \in {"entry", "no_entry"}
           /\ (IF last'.v = "tue" THEN 11 * 60 ELSE 10 * 60) <= now
           /\ now <= 14 * 60) =>
            LET v == last'.v
                x == last'.spot
                h == HoursLeftEntry(v, now)
                credit == estimate_premium(v, x, ShortStrike(v, x), h)
                          - estimate_premium(v, x, LongStrike(v, x), h)
            IN (last'.decision = "entry") <=> (credit * 100 >= 15 * Scale * SPREAD_WIDTH(v))]_vars

\* C5 witness: a run inside the entry window has rejected a candidate whose
\* credit is below 15 percent of the spread
C5_Witness ==
    /\ last.decision = "no_entry"
    /\ last.v = "thu"
    /\ now = 14 * 60
    /\ file[1].position = <<>>

\* C6: a position is entered only at a time inside the entry window (10:00,
\* Tuesday 11:00, to 14:00, ends included); a completed run outside the
\* window that has no same-day position saves position none.
C6_EntryWindow ==
    [][/\ last'.decision = "entry" =>
            /\ (IF last'.v = "tue" THEN 11 * 60 ELSE 10 * 60) <= now
            /\ now <= 14 * 60
       /\ (last'.gate = "done"
           /\ (Loaded(last').position = <<>> \/ Loaded(last').last_run_date # day)
           /\ (now < (IF last'.v = "tue" THEN 11 * 60 ELSE 10 * 60) \/ now > 14 * 60)) =>
            /\ last'.decision = "no_entry"
            /\ file' # <<>>
            /\ file'[1].position = <<>>]_vars

\* C6 witness: a position has been entered at the first minute of the window
C6_Witness ==
    /\ last.decision = "entry"
    /\ last.v = "thu"
    /\ now = 10 * 60
    /\ file[1].position # <<>>

\* C7: the short strike is the multiple of the strike step nearest to
\* spot * (1 - OTM_PCT/100) (the even multiple on a tie) and the long strike
\* is SPREAD_WIDTH below it, for the strikes selected and for every candidate
\* check_entry returns; spot 26000 with 1 percent, step 50, width 50 gives
\* 25750 and 25700.
C7_StrikeSelection ==
    (call.done /\ call.fn \in {"strikes", "check_entry", "run"}) =>
        LET v == call.arg.v
            found == IF call.fn = "strikes" THEN <<call.result[1]>>
                     ELSE IF call.fn = "check_entry" THEN call.result[1]
                     ELSE call.result[1][1].position
            step == IF v = "wed" THEN 100 ELSE 50
            width == IF v = "wed" THEN 100 ELSE 50
            otm == IF v = "wed" THEN 75 ELSE 100
            target == call.arg.spot * (10000 - otm)
        IN found # <<>> =>
             LET c == found[1]
                 gap == Abs(c.short_strike * 10000 - target)
             IN /\ c.short_strike % step = 0
                /\ c.short_strike - c.long_strike = width
                /\ 2 * gap <= step * 10000
                /\ 2 * gap = step * 10000 => (c.short_strike \div step) % 2 = 0
                /\ (v # "wed" /\ call.arg.spot = 26000) =>
                      (c.short_strike = 25750 /\ c.long_strike = 25700)

\* C7 witness: the strikes of the example have been selected
C7_Witness ==
    /\ call.fn = "run"
    /\ call.done
    /\ call.arg.spot = 26000
    /\ call.result[1][1].position # <<>>
    /\ call.result[1][1].position[1].short_strike = 25750
    /\ call.result[1][1].position[1].long_strike = 25700

\* C8: a run that gets no price makes no decision, sends nothing and leaves
\* the file as it found it, also when it has reset a stale position in memory.
C8_NoSpot ==
    [][last'.gate = "no_spot" =>
         /\ last'.decision = "none"
         /\ last'.tg = "none"
         /\ file' = file]_vars

\* C8 witness: a run without a price has reset a stale open position in
\* memory and the file still holds that position
C8_Witness ==
    /\ last.gate = "no_spot"
    /\ last.discarded
    /\ file[1].position # <<>>
    /\ file[1].last_run_date # day

TradesOf(f) == IF f = <<>> THEN <<>> ELSE f[1].trades

\* C9: the trades list of the file only grows: after every run, also one
\* whose read of the file fails, the list found before is a prefix of the
\* list left behind.
C9_AppendOnly == [][IsPrefix(TradesOf(file), TradesOf(file'))]_vars

\* C10: whenever a message is attempted the new state is already in the file,
\* a failed delivery is caught and the run completes, and the file is left
\* exactly as by the same run with a successful delivery.
C10_Notification ==
    [][last'.tg # "none" =>
         /\ last'.savedAtNotify
         /\ last'.tg \in {"sent", "caught"}
         /\ last'.gate = "done"
         /\ last'.decision \in {"entry", "exit"}
         /\ file' = RunOutcome(last'.v, file, day, now, last'.spot,
                               last'.readOk, TRUE).file
         /\ last'.decision = "entry" => file'[1].position # <<>>
         /\ last'.decision = "exit" =>
              /\ file'[1].position = <<>>
              /\ Len(file'[1].trades) = Len(Loaded(last').trades) + 1]_vars

\* C10 witness: the notification of an exit has failed and the trade is in
\* the file
C10_Witness ==
    /\ last.tg = "caught"
    /\ ~last.tgOk
    /\ last.decision = "exit"
    /\ Len(file[1].trades) = 1
    /\ file[1].position = <<>>

\* the position a run works on: what it loaded, after the new-day reset
PositionBefore(info) ==
    IF Loaded(info).last_run_date # day THEN <<>> ELSE Loaded(info).position

\* C11: a run makes at most one transition.  A run that closes a position
\* leaves position none and adds exactly one trade; a run that opens a
\* position (also after discarding a stale one) started without a position,
\* adds no trade, leaves the capital alone and stores the fresh candidate;
\* no run adds more than one trade.
C11_OneDecision ==
    [][PassedGates(last') =>
         /\ last'.decision = "exit" =>
              /\ PositionBefore(last') # <<>>
              /\ file'[1].position = <<>>
              /\ Len(file'[1].trades) = Len(Loaded(last').trades) + 1
         /\ last'.decision = "entry" =>
              /\ PositionBefore(last') = <<>>
              /\ file'[1].position # <<>>
              /\ file'[1].position[1].entry_time = now
              /\ file'[1].position[1].entry_spot = last'.spot
              /\ file'[1].trades = Loaded(last').trades
              /\ file'[1].capital = Loaded(last').capital
         /\ last'.decision \notin {"entry", "exit"} =>
              (file' # file =>
                 /\ file'[1].position = PositionBefore(last')
                 /\ file'[1].trades = Loaded(last').trades)]_vars

\* C11 witness: a run has discarded a stale open position and entered a new
\* one, without recording a trade for the old one
C11_Witness ==
    /\ last.decision = "entry"
    /\ last.discarded
    /\ file[1].position # <<>>
    /\ file[1].position[1].entry_time = now
    /\ file[1].trades = <<>>

\* C12: a run that has a price and finds a same-day open position for which
\* the exit rule says hold (before 15:25 and, on Tuesday, the cost to close
\* below twice the credit) reaches the final save_state and leaves position,
\* capital, trades and date as they were.
C12_MonitorNoOp ==
    [][(PassedGates(last') /\ last'.spot # 0 /\ PositionBefore(last') # <<>>
        /\ now < 15 * 60 + 25
        /\ (last'.v = "tue" =>
              LET p == PositionBefore(last')[1]
                  h == get_hours_left(now)
              IN estimate_premium("tue", last'.spot, p.short_strike, h)
                 - estimate_premium("tue", last'.spot, p.long_strike, h)
                   < 2 * p.credit)) =>
         /\ last'.decision = "hold"
         /\ last'.gate = "done"
         /\ last'.tg = "none"
         /\ file' # <<>>
         /\ file'[1].position = PositionBefore(last')
         /\ file'[1].capital = Loaded(last').capital
         /\ file'[1].trades = Loaded(last').trades
         /\ file'[1].last_run_date = day]_vars

\* C12 witness: a run has monitored an open position whose short put is in
\* the money (an unrealized loss is logged) and has kept it
C12_Witness ==
    /\ last.decision = "hold"
    /\ last.gate = "done"
    /\ file[1].position # <<>>
    /\ last.spot < file[1].position[1].short_strike
    /\ file[1].trades = <<>>
    /\ file[1].capital = 500000 * Scale

\* C13: at a fixed spot and time to expiry the premium of a strike that is
\* at least as far from the spot is not larger, and no premium is below the
\* floor (3 for NIFTY, 5 for Bank Nifty), in the tables of all four files.
C13_PremiumMonotone ==
    (call.fn = "estimate_premium" /\ call.done) =>
        LET floor == IF call.arg.v \in {"wed", "bt"} THEN 5 * Scale ELSE 3 * Scale
        IN /\ call.result[1].near >= call.result[1].far
           /\ call.result[1].far >= floor

\* C13 witness: the nearer strike has the larger premium and the farther
\* strike sits on the floor
C13_Witness ==
    /\ call.fn = "estimate_premium"
    /\ call.done
    /\ call.arg.near > call.arg.far
    /\ call.arg.far < call.arg.spot
    /\ call.result[1].near > call.result[1].far
    /\ call.result[1].far = (IF call.arg.v \in {"wed", "bt"} THEN 5 * Scale ELSE 3 * Scale)

\* C14: for every combination, after the pass over the sessions the number
\* of trades plus the number of skipped sessions is the number of sessions
\* and max_drawdown is not negative; the same holds for every result row.
C14_BacktestCounts ==
    /\ bt.pc = "combo_done" =>
         /\ Len(bt.trades) + bt.skipped = Len(bt.wednesdays)
         /\ bt.max_drawdown >= 0
    /\ bt.pc \in {"sessions", "combo_done", "rank", "done"} =>
         \A j \in 1..Len(bt.results) :
            /\ bt.results[j].trades + bt.results[j].skipped = Len(bt.wednesdays)
            /\ bt.results[j].max_drawdown >= 0

\* C14 witness: the run has ended with a row of a combination that skipped
\* some sessions and lost money in others
C14_Witness ==
    /\ bt.pc = "done"
    /\ \E j \in 1..Len(bt.results) :
          /\ bt.results[j].skipped > 0
          /\ bt.results[j].trades >= 5
          /\ bt.results[j].max_drawdown > 0

\* rows is in descending order of the field key
Descending(rows, key) ==
    \A j \in 1..(Len(rows) - 1) : rows[j][key] >= rows[j + 1][key]

\* ranked holds the n rows of largest key among the rows of results that
\* satisfy Q (all of them when there are fewer than n)
TopOf(ranked, results, key, n, Q(_)) ==
    LET qualified == {j \in 1..Len(results) : Q(results[j])}
    IN /\ Len(ranked) = Min(n, Cardinality(qualified))
       /\ \A j \in 1..Len(ranked) :
             /\ Q(ranked[j])
             /\ \E i \in qualified : results[i] = ranked[j]
       /\ Len(ranked) = n =>
             \A i \in qualified : results[i][key] <= ranked[1][key]
                                  /\ (results[i][key] > ranked[n][key] =>
                                        \E j \in 1..n : ranked[j] = results[i])

AnyRow(r) == r.trades >= 5
TenTrades(r) == r.trades >= 10
TenTradesPfCapped(r) ==
    r.trades >= 10 /\ r.max_drawdown > 0 /\ r.total_pnl <= 50 * r.max_drawdown

\* C15: a combination with fewer than 5 trades is computed but gets no row;
\* rows with fewer than 10 trades stay in the results and in the total-P&L
\* ranking but are in neither the win-rate nor the profit-factor ranking;
\* the profit-factor ranking has only rows with profit_factor <= 50; each
\* ranking is in descending order of its key and holds the top 20, 15, 15.
C15_Rankings ==
    /\ bt.pc \in {"sessions", "combo_done", "rank", "done"} =>
         \A j \in 1..Len(bt.results) : bt.results[j].trades >= 5
    /\ (bt.pc = "done" /\ bt.results # <<>>) =>
         /\ TopOf(bt.by_pnl, bt.results, "total_pnl", 20, AnyRow)
         /\ TopOf(bt.by_wr, bt.results, "win_rate", 15, TenTrades)
         /\ TopOf(bt.by_pf, bt.results, "profit_factor", 15, TenTradesPfCapped)
         /\ Descending(bt.by_pnl, "total_pnl")
         /\ Descending(bt.by_wr, "win_rate")
         /\ Descending(bt.by_pf, "profit_factor")
         /\ \A j \in 1..Len(bt.by_pf) : bt.by_pf[j].profit_factor <= 5000

\* C15 witness: all three rankings are full, and a row with fewer than 10
\* trades is in the results and in the total-P&L ranking only
C15_Witness ==
    /\ bt.pc = "done"
    /\ Len(bt.by_pnl) = 20
    /\ Len(bt.by_wr) = 15
    /\ Len(bt.by_pf) = 15
    /\ Len(bt.results) > 20
    /\ \E j \in 1..Len(bt.by_pnl) : bt.by_pnl[j].trades < 10

\* C16: at every distance from the spot the Bank Nifty base_pct (Wednesday
\* script and backtester) is strictly larger than the NIFTY base_pct, the
\* last step of the tables included.
C16_TablesStrict ==
    (call.fn = "base_pct" /\ call.done) =>
        /\ call.result[1].bank_nifty > call.result[1].nifty
        /\ call.result[1].backtest > call.result[1].nifty

\* capital after the first k taken trades of the combination
CapitalAfter(trades, k) == 500000 * BtScale + SumField(SubSeq(trades, 1, k), "pnl")

\* the largest capital among the initial capital and the first k trades
PeakUpTo(trades, k) ==
    CHOOSE m \in {CapitalAfter(trades, j) : j \in 0..k} :
        \A j \in 0..k : CapitalAfter(trades, j) <= m

\* the largest of 0 and (peak so far - capital) after each of the trades
LargestDrawdown(trades) ==
    CHOOSE m \in {0} \cup {PeakUpTo(trades, k) - CapitalAfter(trades, k) : k \in 1..Len(trades)} :
        \A k \in 1..Len(trades) : PeakUpTo(trades, k) - CapitalAfter(trades, k) <= m

\* the locals b of the session loop are what the trades taken so far give
LoopAccounts(b) ==
    b.pc \in {"sessions", "combo_done"} =>
        /\ b.capital = CapitalAfter(b.trades, Len(b.trades))
        /\ b.peak_capital >= b.capital
        /\ b.peak_capital = PeakUpTo(b.trades, Len(b.trades))
        /\ b.max_drawdown = LargestDrawdown(b.trades)

\* profit_factor of row r, in hundredths rounded down, or the sentinel
RowProfitFactor(r) ==
    IF r.max_drawdown > 0
    THEN /\ r.profit_factor * r.max_drawdown <= r.total_pnl * 100
         /\ r.total_pnl * 100 < (r.profit_factor + 1) * r.max_drawdown
    ELSE r.profit_factor = 9900

\* C17: within a combination, after each taken trade peak_capital >= capital
\* and peak_capital is the largest of INITIAL_CAPITAL and the capitals
\* reached so far; max_drawdown is the largest (peak so far - capital) over
\* the taken trades in session order; a row's profit_factor is total_pnl /
\* max_drawdown (here: in hundredths, rounded down) when max_drawdown > 0 and
\* 99.0 otherwise, with the row's total_pnl and max_drawdown those of the loop.
C17_Drawdown ==
    [][/\ LoopAccounts(bt')
       /\ (bt.pc = "combo_done" /\ Len(bt'.results) = Len(bt.results) + 1) =>
            LET r == bt'.results[Len(bt'.results)]
            IN /\ r.max_drawdown = bt.max_drawdown
               /\ r.total_pnl = bt.capital - 500000 * BtScale
               /\ RowProfitFactor(r)]_vars

\* C17 witness: a combination has ended above its initial capital, below its
\* peak, and its largest drawdown is not the one of the last trade
C17_Witness ==
    /\ bt.pc = "combo_done"
    /\ Len(bt.trades) >= 5
    /\ bt.peak_capital > 500000 * BtScale
    /\ bt.capital < bt.peak_capital
    /\ bt.max_drawdown > bt.peak_capital - bt.capital

TradesOn(f, d) == {j \in 1..Len(TradesOf(f)) : TradesOf(f)[j].date = d}

\* C19: within one calendar day at most one position is opened and at most
\* one trade with that date is recorded: no run opens a position on a day
\* whose trade is already in the file, and no file holds two trades of one day.
C19_OneTradePerDay ==
    [][/\ last'.decision = "entry" => TradesOn(file, day) = {}
       /\ Cardinality(TradesOn(file', day)) <= 1]_vars

\* C20: on the file shared by the Tuesday and the Thursday script, a
\* position that reaches the Tuesday check_exit was stored by the Tuesday
\* script on the same day and has stop_trigger = 2 * credit, so that
\* check_exit does not fail; a position that the Thursday script holds or
\* settles is one the Thursday script stored on the same day.
C20_SharedFile ==
    [][(name = "thetat_state.json" /\ PassedGates(last') /\ last'.spot # 0
        /\ PositionBefore(last') # <<>>) =>
         LET p == PositionBefore(last')[1]
         IN /\ last'.gate = "done"
            /\ last'.decision \in {"hold", "exit"}
            /\ Loaded(last').last_run_date = day
            /\ last'.v = "tue" =>
                 /\ "stop_trigger" \in DOMAIN p
                 /\ p.stop_trigger = 2 * p.credit
                 /\ p.lots = 2
                 /\ p.entry_time >= 11 * 60
            /\ last'.v = "thu" =>
                 /\ "stop_trigger" \notin DOMAIN p
                 /\ p.lots = 10
                 /\ last'.decision = "exit" =>
                      "exit_reason" \notin DOMAIN file'[1].trades[Len(file'[1].trades)]]_vars

\* C20 witness: the Tuesday script has evaluated its exit rule on its own
\* position in a file that holds a trade of the Thursday script
C20_Witness ==
    /\ name = "thetat_state.json"
    /\ last.v = "tue"
    /\ last.decision = "hold"
    /\ file[1].position # <<>>
    /\ "stop_trigger" \in DOMAIN file[1].position[1]
    /\ file[1].trades # <<>>
    /\ "exit_reason" \notin DOMAIN file[1].trades[1]

\* the outcome label the specification gives a realized trade
OutcomeLabel(tr) ==
    IF settle(tr.short_strike, tr.long_strike, tr.credit, tr.exit_spot) > 0
    THEN "WIN"
    ELSE IF tr.exit_spot <= tr.long_strike THEN "MAX LOSS"
    ELSE "PARTIAL LOSS"

\* C21: every realized trade is labelled WIN exactly when its P&L per unit is
\* positive, MAX LOSS exactly when it closed with the price at or below the
\* long strike, and PARTIAL LOSS otherwise; a losing trade closed with the
\* price between the strikes is a PARTIAL LOSS.
C21_OutcomeLabel ==
    \A j \in 1..Len(TradesOf(file)) :
        TradesOf(file)[j].result = OutcomeLabel(TradesOf(file)[j])

\* C22: when Tuesday's check_exit looks at a position with the price at or
\* below the long strike, the cost to close it computes is at most 0 and so
\* below the positive stop trigger, whatever the time; it never answers with
\* the stop-loss, it holds before 15:25 and exits with the EOD reason from
\* 15:25 on.
C22_StopLossBlind ==
    (call.fn = "check_exit" /\ call.done
     /\ call.arg.spot <= call.arg.position.long_strike) =>
        LET p == call.arg.position
            r == call.result[1]
        IN /\ CostToClose("tue", p, call.arg.spot, call.arg.t) <= 0
           /\ p.stop_trigger > 0
           /\ r.reason # "STOP LOSS"
           /\ r.exit <=> call.arg.t >= 15 * 60 + 25
           /\ r.exit => r.reason = "EOD Exit"

\* C22 witness: before 15:25 check_exit has held a position that check_entry
\* accepts, with the price below the long strike and a negative cost to close
C22_Witness ==
    /\ call.fn = "check_exit"
    /\ call.done
    /\ call.arg.spot < call.arg.position.long_strike
    /\ call.arg.t < 15 * 60 + 25
    /\ CostToClose("tue", call.arg.position, call.arg.spot, call.arg.t) < 0
    /\ call.result[1] = Hold
    /\ check_entry("tue", call.arg.position.entry_spot,
                   call.arg.position.entry_time) = <<call.arg.position>>

====
